---- MODULE Spec2Model ----
(***************************************************************************)
(* A model of the py-nw discrete-event network simulator:                  *)
(*   nw/network_event_scheduler.py  NetworkEventScheduler                  *)
(*   nw/link.py                     Link                                   *)
(*   nw/node.py                     Node                                   *)
(*   nw/packet.py                   Packet                                 *)
(* Time is counted in integer ticks.  The link bandwidth is given in bits  *)
(* per tick and is chosen so that (size * 8) / bandwidth is exact.         *)
(***************************************************************************)
EXTENDS Integers, Sequences, FiniteSets, TLC

\* ------------------------------------------------------------------------
\* Bounds of the explored inputs
\* ------------------------------------------------------------------------
\* number of schedule_event calls made by the caller before run()/run_until()
MaxSetup == 3
\* the same, for the network workload
MaxNetSetup == 2
\* latest time the caller schedules an event at (general workload)
MaxTime == 1
\* latest time the caller schedules an event at (single-direction workload)
MaxLinkTime == 5
\* largest payload_size of a packet, in bytes
MaxPayload == 3
\* number of run_until calls the caller makes
MaxUntilCalls == 1
\* number of schedule_event calls made by the caller (tie workload)
MaxTieSetup == 5
\* number of set_traffic calls the caller makes (traffic workload)
MaxSources == 1
\* longest duration of a traffic source, in ticks
MaxDuration == 3

\* ------------------------------------------------------------------------
\* Values of the program
\* ------------------------------------------------------------------------
\* Packet.arrival_time = None (packet.py: __init__)
None == -2
\* the lost sentinel passed to set_arrived (link.py: transfer_packet)
LOST == -1

\* the two endpoints of the link (Link.node_x, Link.node_y) and a third node
\* that is not an endpoint of it
node_x == "x"
node_y == "y"
node_z == "z"
Nodes == {node_x, node_y, node_z}
Endpoints == {node_x, node_y}

\* Node.address: every node's address is its name
address(n) == n

\* the two directional queues of the link: packet_queue_xy / packet_queue_yx
Dirs == {"xy", "yx"}

NoNode == "-"

VARIABLES
    pc,                 \* position of the caller: setup, run, run_until, idle, done
    current_time,       \* NetworkEventScheduler.current_time
    events,             \* NetworkEventScheduler.events (the heap, as a set)
    event_id,           \* NetworkEventScheduler.event_id
    packet_logs,        \* NetworkEventScheduler.packet_logs, by packet id
    packets,            \* every Packet constructed so far, by id
    links,              \* Node.links, by node
    link,               \* Link.bandwidth, Link.delay, Link.loss_rate
    packet_queue,       \* Link.packet_queue_xy / packet_queue_yx (heap arrays)
    current_queue_time, \* Link.current_queue_time_xy / _yx
    end_time,           \* argument of the run_until call in progress
    error,              \* exception raised to the caller, or "none"
    workload,           \* the input sets the caller draws its calls from
    iterations,         \* iterations of run()'s while loop executed so far
    hist                \* history: what was scheduled, dispatched, enqueued

vars == << pc, current_time, events, event_id, packet_logs, packets, links,
           link, packet_queue, current_queue_time, end_time, error,
           workload, iterations, hist >>

\* ------------------------------------------------------------------------
\* heapq on the scheduler's events
\* ------------------------------------------------------------------------
\* An event is the tuple (event_time, event_id, callback, args).  The fields
\* node .. tt are the callback's args, NoNode / 0 where the callback has none.
\* bitrate, burstiness and until are the variables a generate_packet closure
\* has captured from its set_traffic call (until is that call's end_time),
\* source is the number of that call; all 0 for any other callback.
Event(t, id, cb, n, dst, hs, ps, p, tt) ==
    [ time |-> t, id |-> id, callback |-> cb, node |-> n, destination |-> dst,
      header_size |-> hs, payload_size |-> ps, packet |-> p, tt |-> tt,
      bitrate |-> 0, burstiness |-> 0, until |-> 0, source |-> 0 ]

\* A mutation of EventLess: equal times are ordered by the larger id first.
EventLessLifo(a, b) ==
    \/ a.time < b.time
    \/ a.time = b.time /\ a.id > b.id

\* Python's tuple comparison on two events: event ids are unique, so the
\* comparison is decided by (event_time, event_id) and never reaches the
\* callback or its args.
EventLess(a, b) ==
    \/ a.time < b.time
    \/ a.time = b.time /\ a.id < b.id

\* heapq.heappop(self.events) returns the least event; self.events[0] is it.
HeapMin(evs) == CHOOSE e \in evs : \A o \in evs \ {e} : EventLess(e, o)

\* ------------------------------------------------------------------------
\* heapq on a link queue: a list of (dequeue_time, packet, from_node)
\* ------------------------------------------------------------------------
Item(dq, p, n) == [ dequeue_time |-> dq, packet |-> p, from_node |-> n ]

\* Python's tuple comparison on two queue entries holding different packets:
\* an equal dequeue_time falls through to Packet.__lt__, which is always False.
ItemLess(a, b) == a.dequeue_time < b.dequeue_time

\* heapq._siftdown(heap, startpos, pos), positions counted from 1
RECURSIVE SiftDown(_, _, _, _)
SiftDown(heap, startpos, pos, newitem) ==
    IF pos > startpos /\ ItemLess(newitem, heap[pos \div 2])
    THEN SiftDown([heap EXCEPT ![pos] = heap[pos \div 2]], startpos,
                  pos \div 2, newitem)
    ELSE [heap EXCEPT ![pos] = newitem]

\* heapq._siftup(heap, pos): the smaller child is moved up until a leaf is
\* reached, then newitem is sifted down from there
RECURSIVE SiftUp(_, _, _, _)
SiftUp(heap, startpos, pos, newitem) ==
    LET childpos == 2 * pos
        rightpos == childpos + 1
        child == IF rightpos <= Len(heap)
                    /\ ~ ItemLess(heap[childpos], heap[rightpos])
                 THEN rightpos ELSE childpos
    IN  IF childpos <= Len(heap)
        THEN SiftUp([heap EXCEPT ![pos] = heap[child]], startpos, child, newitem)
        ELSE SiftDown(heap, startpos, pos, newitem)

\* heapq.heappush(heap, item)
HeapPush(heap, item) == SiftDown(Append(heap, item), 1, Len(heap) + 1, item)

\* heapq.heappop(heap): << returned item, heap afterwards >>
HeapPop(heap) ==
    LET lastelt == heap[Len(heap)]
        rest == SubSeq(heap, 1, Len(heap) - 1)
    IN  IF rest = << >>
        THEN << lastelt, rest >>
        ELSE << heap[1], SiftUp(rest, 1, 1, lastelt) >>

\* ------------------------------------------------------------------------
\* The handlers, as functions of the program state S
\* ------------------------------------------------------------------------
\* the part of the state a callback can change
State == [ events |-> events, event_id |-> event_id,
           packet_logs |-> packet_logs, packets |-> packets,
           packet_queue |-> packet_queue,
           current_queue_time |-> current_queue_time, hist |-> hist ]

\* NetworkEventScheduler.schedule_event; now is the clock at the call
schedule_event(S, now, e) ==
    LET ev == [e EXCEPT !.id = S.event_id]
    IN  [S EXCEPT !.events = @ \cup {ev},
                  !.event_id = @ + 1,
                  !.hist.scheduled = @ \cup
                      {[ id |-> ev.id, time |-> ev.time, at |-> now,
                         callback |-> ev.callback,
                         by |-> Len(S.hist.dispatched) ]}]

\* NetworkEventScheduler.log_packet_info with log_enabled = True
log_packet_info(S, now, p, event_type, node_id) ==
    LET logs == IF p \in DOMAIN S.packet_logs
                THEN S.packet_logs
                ELSE [q \in DOMAIN S.packet_logs \cup {p} |->
                        IF q = p
                        THEN [ arrival_time |-> S.packets[p].arrival_time,
                               events |-> << >> ]
                        ELSE S.packet_logs[q]]
        stamped == IF event_type = "arrival"
                   THEN [logs EXCEPT ![p].arrival_time = now]
                   ELSE logs
    IN  [S EXCEPT !.packet_logs =
            [stamped EXCEPT ![p].events =
                Append(@, [ time |-> now, event |-> event_type,
                            node_id |-> node_id ])]]

\* Packet.set_arrived
set_arrived(S, p, arrival_time) ==
    [S EXCEPT !.packets[p].arrival_time = arrival_time,
              !.hist.pkt[p].sets = @ + 1]

\* A mutation of receive_packet: the lost sentinel is not looked at.
receive_packet_nocheck(S, now, node, p) ==
    IF S.packets[p].destination = address(node)
    THEN set_arrived(log_packet_info(S, now, p, "arrived", node), p, now)
    ELSE log_packet_info(S, now, p, "received", node)

\* Node.receive_packet
receive_packet(S, now, node, p) ==
    IF S.packets[p].arrival_time = LOST
    THEN log_packet_info(S, now, p, "lost", node)
    ELSE IF S.packets[p].destination = address(node)
         THEN set_arrived(log_packet_info(S, now, p, "arrived", node), p, now)
         ELSE log_packet_info(S, now, p, "received", node)

\* the queue and the backlog a from_node selects (link.py: the if/else on
\* from_node == self.node_x in every method of Link)
Dir(from_node) == IF from_node = node_x THEN "xy" ELSE "yx"

\* A mutation of TransferTime: the size is taken in bytes.
TransferTimeBytes(size) == size \div link.bandwidth

\* packet_transfer_time = (packet.size * 8) / self.bandwidth
TransferTime(size) == (size * 8) \div link.bandwidth

\* A mutation of add_to_queue_time: the else branch is missing.
add_to_queue_time_xy(S, from_node, packet_transfer_time) ==
    [S EXCEPT !.current_queue_time["xy"] = @ + packet_transfer_time]

\* Link.add_to_queue_time
add_to_queue_time(S, from_node, packet_transfer_time) ==
    [S EXCEPT !.current_queue_time[Dir(from_node)] = @ + packet_transfer_time]

\* A mutation of subtract_from_queue_time: the branches are swapped.
subtract_from_queue_time_swapped(S, from_node, packet_transfer_time) ==
    [S EXCEPT !.current_queue_time[IF from_node = node_x THEN "yx" ELSE "xy"] =
                  @ - packet_transfer_time]

\* A mutation of subtract_from_queue_time: the backlog is left as it is.
subtract_from_queue_time_kept(S, from_node, packet_transfer_time) == S

\* Link.subtract_from_queue_time
subtract_from_queue_time(S, from_node, packet_transfer_time) ==
    [S EXCEPT !.current_queue_time[Dir(from_node)] = @ - packet_transfer_time]

\* A mutation of IsLost: the comparison is the other way round.
IsLostInverted(r) == r > link.loss_rate

\* random.random() < self.loss_rate, for a drawn value r
IsLost(r) == r < link.loss_rate

\* A mutation of DeliveryTime: the delay is taken as the time of delivery.
DeliveryTimeRelative(now, packet_transfer_time) == link.delay

\* A mutation of DeliveryTime: the delay counts from the end of the transfer.
DeliveryTimeAfterTransfer(now, packet_transfer_time) ==
    now + packet_transfer_time + link.delay

\* the time receive_packet is scheduled at: current_time + self.delay
DeliveryTime(now, packet_transfer_time) == now + link.delay

\* A mutation of enque_packet: a transfer is scheduled for every packet,
\* also when the queue already held one.
enque_packet_always(S, now, p, from_node) ==
    LET d == Dir(from_node)
        queue == S.packet_queue[d]
        current_queue_time_d == S.current_queue_time[d]
        packet_transfer_time == TransferTime(S.packets[p].size)
        dequeue_time == now + current_queue_time_d
        pushed == HeapPush(queue, Item(dequeue_time, p, from_node))
        S1 == [S EXCEPT !.packet_queue[d] = pushed]
        S2 == add_to_queue_time(S1, from_node, packet_transfer_time)
        S3 == schedule_event(S2, now,
                  Event(dequeue_time, 0, "transfer_packet", from_node,
                        NoNode, 0, 0, 0, 0))
    IN  [S3 EXCEPT
            !.hist.enq_count[d] = @ + 1,
            !.hist.pkt[p] = [@ EXCEPT !.dir = d,
                                      !.from_node = from_node,
                                      !.enq_order = S.hist.enq_count[d] + 1,
                                      !.enq_clock = now,
                                      !.enq_step = Len(S.hist.dispatched),
                                      !.enq_backlog = current_queue_time_d,
                                      !.dequeue_time = dequeue_time],
            !.hist.foreign = @ \cup
                IF from_node \in Endpoints THEN {}
                ELSE {[ packet |-> p, from_node |-> from_node,
                        raised |-> FALSE,
                        queue_changed |-> S3.packet_queue # S.packet_queue,
                        backlog_changed |->
                            S3.current_queue_time # S.current_queue_time,
                        scheduled |-> S3.events # S.events ]}]

\* Link.enque_packet
enque_packet(S, now, p, from_node) ==
    LET d == Dir(from_node)
        queue == S.packet_queue[d]
        current_queue_time_d == S.current_queue_time[d]
        packet_transfer_time == TransferTime(S.packets[p].size)
        dequeue_time == now + current_queue_time_d
        pushed == HeapPush(queue, Item(dequeue_time, p, from_node))
        S1 == [S EXCEPT !.packet_queue[d] = pushed]
        S2 == add_to_queue_time(S1, from_node, packet_transfer_time)
        S3 == IF Len(pushed) = 1
              THEN schedule_event(S2, now,
                       Event(dequeue_time, 0, "transfer_packet", from_node,
                             NoNode, 0, 0, 0, 0))
              ELSE S2
    IN  [S3 EXCEPT
            !.hist.enq_count[d] = @ + 1,
            !.hist.pkt[p] = [@ EXCEPT !.dir = d,
                                      !.from_node = from_node,
                                      !.enq_order = S.hist.enq_count[d] + 1,
                                      !.enq_clock = now,
                                      !.enq_step = Len(S.hist.dispatched),
                                      !.enq_backlog = current_queue_time_d,
                                      !.dequeue_time = dequeue_time],
            !.hist.foreign = @ \cup
                IF from_node \in Endpoints THEN {}
                ELSE {[ packet |-> p, from_node |-> from_node,
                        raised |-> FALSE,
                        queue_changed |-> S3.packet_queue # S.packet_queue,
                        backlog_changed |->
                            S3.current_queue_time # S.current_queue_time,
                        scheduled |-> S3.events # S.events ]}]

\* Link.transfer_packet; r is the value random.random() returns, in percent
transfer_packet(S, now, from_node, r) ==
    LET d == Dir(from_node)
        queue == S.packet_queue[d]
    IN  IF queue = << >> THEN S
        ELSE
        LET popped == HeapPop(queue)
            dequeue_time == popped[1].dequeue_time
            p == popped[1].packet
            rest == popped[2]
            packet_transfer_time == TransferTime(S.packets[p].size)
            S1 == [S EXCEPT !.packet_queue[d] = rest,
                            !.hist.start_count[d] = @ + 1,
                            !.hist.pkt[p].start_order =
                                S.hist.start_count[d] + 1,
                            !.hist.pkt[p].start_clock = now,
                            !.hist.pkt[p].delivery = {S.event_id},
                            !.hist.pkt[p].finish = S.event_id + 1]
            S2 == IF IsLost(r) THEN set_arrived(S1, p, LOST) ELSE S1
            next_node == IF from_node # node_x THEN node_x ELSE node_y
            S3 == schedule_event(S2, now,
                      Event(DeliveryTime(now, packet_transfer_time), 0,
                            "receive_packet", next_node, NoNode, 0, 0, p, 0))
            S4 == schedule_event(S3, now,
                      Event(dequeue_time + packet_transfer_time, 0,
                            "subtract_from_queue_time", from_node, NoNode,
                            0, 0, 0, packet_transfer_time))
        IN  IF rest # << >>
            THEN schedule_event(S4, now,
                     Event(rest[1].dequeue_time, 0, "transfer_packet",
                           from_node, NoNode, 0, 0, 0, 0))
            ELSE S4

\* Node.send_packet: loopback, or the first attached link
send_packet(S, now, node, p) ==
    LET S1 == log_packet_info(S, now, p, "sent", node)
    IN  IF S1.packets[p].destination = address(node)
        THEN receive_packet(S1, now, node, p)
        ELSE IF links[node] # << >>
             THEN enque_packet(S1, now, p, node)
             ELSE S1

\* Packet.__init__, with the history kept about the packet
NewPacket(S, now, source, destination, header_size, payload_size) ==
    [S EXCEPT
        !.packets = Append(@,
            [ source |-> source, destination |-> destination,
              size |-> header_size + payload_size,
              creation_time |-> now, arrival_time |-> None ]),
        !.hist.pkt = Append(@,
            [ dir |-> NoNode, from_node |-> NoNode, enq_order |-> 0,
              enq_clock |-> None, enq_backlog |-> 0, dequeue_time |-> None,
              start_order |-> 0, start_clock |-> None,
              delivery |-> {}, enq_step |-> 0, finish |-> None,
              sets |-> 0 ])]

\* Node.create_packet
create_packet(S, now, node, destination, header_size, payload_size) ==
    LET S1 == NewPacket(S, now, address(node), destination, header_size,
                        payload_size)
        p == Len(S1.packets)
        S2 == log_packet_info(S1, now, p, "created", node)
    IN  send_packet(S2, now, node, p)

\* A mutation of Interval: the size is divided before it is turned to bits.
IntervalBytes(packet_size, bitrate, burstiness) ==
    ((packet_size \div bitrate) * 8) * burstiness

\* interval = (packet_size * 8) / bitrate * burstiness; the inputs are chosen
\* so that the division is exact
Interval(packet_size, bitrate, burstiness) ==
    ((packet_size * 8) \div bitrate) * burstiness

\* A mutation of TimeGuard: the end of the duration is included.
TimeGuardInclusive(now, until) == now <= until

\* the guard of generate_packet: current_time < end_time
TimeGuard(now, until) == now < until

\* the closure generate_packet of Node.set_traffic, popped as event e
generate_packet(S, now, e) ==
    IF TimeGuard(now, e.until)
    THEN LET S1 == create_packet(S, now, e.node, e.destination,
                                 e.header_size, e.payload_size)
             packet_size == e.header_size + e.payload_size
             interval == Interval(packet_size, e.bitrate, e.burstiness)
             S2 == [S1 EXCEPT !.hist.traffic[e.source].created =
                                  Append(@, Len(S1.packets))]
         IN  schedule_event(S2, now, [e EXCEPT !.time = now + interval])
    ELSE S

\* Node.set_traffic
set_traffic(S, now, node, destination, bitrate, start_time, duration, header_size, payload_size, burstiness) ==
    LET until == start_time + duration
        source == Len(S.hist.traffic) + 1
        S1 == [S EXCEPT !.hist.traffic = Append(@,
                  [ start_time |-> start_time, duration |-> duration,
                    bitrate |-> bitrate, burstiness |-> burstiness,
                    header_size |-> header_size,
                    payload_size |-> payload_size,
                    created |-> << >> ])]
    IN  schedule_event(S1, now,
            [Event(start_time, 0, "generate_packet", node, destination,
                   header_size, payload_size, 0, 0)
                EXCEPT !.bitrate = bitrate, !.burstiness = burstiness,
                       !.until = until, !.source = source])

\* callback(*args) for a popped event e, with the clock already at e.time
Invoke(S, e, r) ==
    CASE e.callback = "create_packet" ->
            create_packet(S, e.time, e.node, e.destination, e.header_size,
                          e.payload_size)
      [] e.callback = "transfer_packet" ->
            transfer_packet(S, e.time, e.node, r)
      [] e.callback = "receive_packet" ->
            receive_packet(S, e.time, e.node, e.packet)
      [] e.callback = "subtract_from_queue_time" ->
            subtract_from_queue_time(S, e.node, e.tt)
      [] e.callback = "generate_packet" ->
            generate_packet(S, e.time, e)
      [] OTHER -> S

\* ------------------------------------------------------------------------
\* Inputs
\* ------------------------------------------------------------------------
\* Link(bandwidth, delay, loss_rate): bandwidth in bits per tick, delay in
\* ticks; loss_rate is given in percent where a link
\* is constructed (InitWith)
Bandwidths == {8}
Delays == {1}
\* the values random.random() returns, in percent: a value of [0, 100)
RandomDraws == {0, 99}

\* << header_size, payload_size >> of the packets the caller has created
PacketShapes == { <<0, 1>>, <<1, MaxPayload>> }

\* The calls the caller schedules: schedule_event(t, callback, *args)
Call(cb, n, dst, shape) ==
    [ callback |-> cb, node |-> n, destination |-> dst,
      header_size |-> shape[1], payload_size |-> shape[2] ]

\* a callback of the caller's own that touches nothing of the simulator
Probe == Call("probe", NoNode, NoNode, <<0, 0>>)

\* node.create_packet(destination, header_size, payload_size)
Create(n, dst, shape) == Call("create_packet", n, dst, shape)

\* probes and packets of one shape in one direction of the link
SchedulerCalls == { Probe, Create(node_x, address(node_y), <<0, 1>>) }

\* packets of every shape in one direction of the link, a packet in the
\* other direction, a packet to the creating node
\* itself, and a packet of the third node
NetCalls ==
    { Create(node_x, address(node_y), sh) : sh \in PacketShapes } \cup
    { Create(node_y, address(node_x), <<0, 1>>),
      Create(node_y, address(node_x), <<0, 1>>),
      Create(node_x, address(node_x), <<0, 1>>),
      Create(node_z, address(node_x), <<0, 1>>) }

\* the times the caller creates packets at in the queueing workload: a
\* packet of the larger shape created at 0 is still in transfer at 4 (its
\* finish event follows the caller's events of that time) and done at 5
QueueTimes == {0, 4, 5}

\* packets of every shape in one direction of the link, and a packet to
\* the creating node itself
QueueCalls ==
    { Create(node_x, address(node_y), sh) : sh \in PacketShapes } \cup
    { Create(node_x, address(node_x), <<0, 1>>) }

\* the times the caller creates packets at in the tie workload: a packet
\* of the larger shape created at 0 is in transfer at 3 and done at 6
TieTimes == {0, 3, 6}

\* the arguments of set_traffic: bitrate in bits per tick, start_time and
\* duration in ticks
Bitrates == {4, 8}
Burstiness == {1, 2}
StartTimes == 0..MaxTime
Durations == 0..MaxDuration

\* packets of every shape in one direction of the link
LinkCalls == { Create(node_x, address(node_y), sh) : sh \in PacketShapes }

\* ------------------------------------------------------------------------
\* Initial state: the objects as constructed (main.py: scheduler, nodes, link)
\* ------------------------------------------------------------------------
InitWith(times, calls, max_calls, loss_rates) ==
    /\ pc = "setup"
    /\ current_time = 0
    /\ events = {}
    /\ event_id = 0
    /\ packet_logs = << >>
    /\ packets = << >>
    /\ links = [n \in Nodes |-> IF n \in Endpoints THEN << "link" >> ELSE << >>]
    /\ link \in [ bandwidth : Bandwidths, delay : Delays,
                  loss_rate : loss_rates ]
    /\ packet_queue = [d \in Dirs |-> << >>]
    /\ current_queue_time = [d \in Dirs |-> 0]
    /\ end_time = None
    /\ error = "none"
    /\ iterations = 0
    /\ workload = [ times |-> times, calls |-> calls,
                    max_calls |-> max_calls ]
    /\ hist = [ scheduled |-> {}, dispatched |-> << >>, dropped |-> {},
                pkt |-> << >>, enq_count |-> [d \in Dirs |-> 0],
                start_count |-> [d \in Dirs |-> 0], foreign |-> {},
                caller_events |-> 0, until_calls |-> 0, until_ended |-> 0,
                traffic |-> << >>, until_snapshot |-> {} ]

\* the scheduler's workload: probes and packets, run() and run_until()
Init == InitWith(0..MaxTime, SchedulerCalls, MaxSetup, {0})

\* the network workload, by the link's loss_rate
InitNet == InitWith(0..MaxTime, NetCalls, MaxNetSetup, {50})
InitNoLoss == InitWith(0..MaxTime, NetCalls, MaxNetSetup, {0})
InitAllLoss == InitWith(0..MaxTime, NetCalls, MaxNetSetup, {100})

\* the single-direction workload
InitLink == InitWith(0..MaxLinkTime, LinkCalls, MaxSetup, {0})

\* the queueing workload
InitQueue == InitWith(QueueTimes, QueueCalls, MaxSetup, {0})

\* the tie workload: enough packets of one direction for two queue entries
\* of equal dequeue_time
InitTies == InitWith(TieTimes, LinkCalls, MaxTieSetup, {0})

\* the traffic workload: the caller calls set_traffic, as main.py does
InitTraffic == InitWith({}, {}, MaxSources, {0})

\* the state after a callback or a caller's call has run
Commit(S) ==
    /\ events' = S.events
    /\ event_id' = S.event_id
    /\ packet_logs' = S.packet_logs
    /\ packets' = S.packets
    /\ packet_queue' = S.packet_queue
    /\ current_queue_time' = S.current_queue_time
    /\ hist' = S.hist

\* ------------------------------------------------------------------------
\* The caller, before run(): main.py-style wiring
\* ------------------------------------------------------------------------
\* scheduler.schedule_event(t, c.callback, *args) called by the caller
ScheduleEvent(t, c) ==
    /\ pc = "setup"
    /\ event_id < workload.max_calls
    /\ LET S == schedule_event(State, current_time,
                    Event(t, 0, c.callback, c.node, c.destination,
                          c.header_size, c.payload_size, 0, 0))
       IN  Commit([S EXCEPT !.hist.caller_events = @ + 1])
    /\ UNCHANGED << pc, current_time, links, link, end_time, error, workload, iterations >>

\* node_x.set_traffic(destination = node_y's address, ...) called by the
\* caller with a packet of header_size 0 and payload_size 1
SetTraffic(bitrate, start_time, duration, burstiness) ==
    /\ pc = "setup"
    /\ event_id < workload.max_calls
    /\ LET S == set_traffic(State, current_time, node_x, address(node_y),
                            bitrate, start_time, duration, 0, 1, burstiness)
       IN  Commit([S EXCEPT !.hist.caller_events = @ + 1])
    /\ UNCHANGED << pc, current_time, links, link, end_time, error, workload, iterations >>

\* Node.add_link(link), called by the caller on node n
AddLink(n) ==
    /\ pc = "setup"
    /\ links' = IF "link" \in { links[n][i] : i \in 1..Len(links[n]) }
                THEN links
                ELSE [links EXCEPT ![n] = Append(@, "link")]
    /\ UNCHANGED << pc, current_time, events, event_id, packet_logs, packets,
                    link, packet_queue, current_queue_time, end_time, error,
                    workload, iterations, hist >>

\* ------------------------------------------------------------------------
\* NetworkEventScheduler.run
\* ------------------------------------------------------------------------
StartRun ==
    /\ pc \in {"setup", "idle"}
    /\ pc' = "run"
    /\ UNCHANGED << current_time, events, event_id, packet_logs, packets,
                    links, link, packet_queue, current_queue_time, end_time,
                    error, workload, iterations, hist >>

\* one iteration of the while loop: heappop, set the clock, call back
RunStep(r) ==
    /\ pc = "run"
    /\ events # {}
    /\ LET e == HeapMin(events)
           S0 == [State EXCEPT
                    !.events = events \ {e},
                    !.hist.dispatched = Append(@,
                        [ id |-> e.id, time |-> e.time,
                          callback |-> e.callback ])]
       IN  /\ current_time' = e.time
           /\ Commit(Invoke(S0, e, r))
    /\ iterations' = iterations + 1
    /\ UNCHANGED << pc, links, link, end_time, error, workload >>

\* A mutation of RunReturn: the loop iterates over the events that were in
\* the queue when run() was called and returns when those are used up.
RunReturnSnapshot ==
    /\ pc = "run"
    /\ \A e \in events : e.id >= hist.caller_events
    /\ pc' = "done"
    /\ UNCHANGED << current_time, events, event_id, packet_logs, packets,
                    links, link, packet_queue, current_queue_time, end_time,
                    error, workload, iterations, hist >>

\* the while condition fails: run() returns
RunReturn ==
    /\ pc = "run"
    /\ events = {}
    /\ pc' = "done"
    /\ UNCHANGED << current_time, events, event_id, packet_logs, packets,
                    links, link, packet_queue, current_queue_time, end_time,
                    error, workload, iterations, hist >>

\* ------------------------------------------------------------------------
\* NetworkEventScheduler.run_until
\* ------------------------------------------------------------------------
StartRunUntil(t) ==
    /\ pc \in {"setup", "idle"}
    /\ hist.until_calls < MaxUntilCalls
    /\ pc' = "run_until"
    /\ end_time' = t
    /\ hist' = [hist EXCEPT !.until_calls = @ + 1,
                            !.until_snapshot = events]
    /\ UNCHANGED << current_time, events, event_id, packet_logs, packets,
                    links, link, packet_queue, current_queue_time, error,
                    workload, iterations >>

\* A mutation of RunUntilStep: the loop does not look at the time of the
\* event it pops.
RunUntilStepAny ==
    /\ pc = "run_until"
    /\ events # {}
    /\ LET e == HeapMin(events)
       IN  /\ events' = events \ {e}
           /\ hist' = [hist EXCEPT !.dropped = @ \cup {e.id},
                                   !.until_ended = @ + 1]
    /\ error' = "ValueError"
    /\ pc' = "idle"
    /\ UNCHANGED << current_time, event_id, packet_logs, packets, links, link,
                    packet_queue, current_queue_time, end_time, workload, iterations >>

\* one iteration of the while loop: the event is popped, and unpacking its
\* four fields into three names raises ValueError before the clock is set
\* or the callback is called; the exception ends the call
RunUntilStep ==
    /\ pc = "run_until"
    /\ events # {}
    /\ HeapMin(events).time <= end_time
    /\ LET e == HeapMin(events)
       IN  /\ events' = events \ {e}
           /\ hist' = [hist EXCEPT !.dropped = @ \cup {e.id},
                                   !.until_ended = @ + 1]
    /\ error' = "ValueError"
    /\ pc' = "idle"
    /\ UNCHANGED << current_time, event_id, packet_logs, packets, links, link,
                    packet_queue, current_queue_time, end_time, workload, iterations >>

\* the while condition fails: run_until() returns
RunUntilReturn ==
    /\ pc = "run_until"
    /\ ~ (events # {} /\ HeapMin(events).time <= end_time)
    /\ pc' = "idle"
    /\ hist' = [hist EXCEPT !.until_ended = @ + 1]
    /\ UNCHANGED << current_time, events, event_id, packet_logs, packets,
                    links, link, packet_queue, current_queue_time, end_time,
                    error, workload, iterations >>

\* the caller's calls before the run
Setup ==
    \/ \E t \in workload.times, c \in workload.calls : ScheduleEvent(t, c)
    \/ \E n \in Nodes : AddLink(n)

Run ==
    \/ StartRun
    \/ \E r \in RandomDraws : RunStep(r)
    \/ RunReturn

RunUntil ==
    \/ \E t \in workload.times : StartRunUntil(t)
    \/ RunUntilStep
    \/ RunUntilReturn

\* the caller's set_traffic calls before the run
Traffic ==
    \E b \in Bitrates, t \in StartTimes, d \in Durations, u \in Burstiness :
        SetTraffic(b, t, d, u)

Next == Setup \/ Run \/ RunUntil

\* a caller that only calls run()
NextRun == Setup \/ Run

\* a caller that sets traffic sources and calls run()
NextTraffic == Traffic \/ Run

Spec == Init /\ [][Next]_vars

SpecNet == InitNet /\ [][NextRun]_vars

SpecNoLoss == InitNoLoss /\ [][NextRun]_vars

SpecAllLoss == InitAllLoss /\ [][NextRun]_vars

SpecLink == InitLink /\ [][NextRun]_vars

SpecQueue == InitQueue /\ [][NextRun]_vars

SpecTies == InitTies /\ [][NextRun]_vars

SpecTraffic == InitTraffic /\ [][NextTraffic]_vars

\* the position of run()'s while loop, and a step of it seen through this
\* position alone: the loop goes on to its next iteration or returns
position == << pc, iterations >>
RunLoop ==
    /\ pc = "run"
    /\ \/ events # {} /\ iterations' = iterations + 1 /\ pc' = pc
       \/ events = {} /\ iterations' = iterations /\ pc' = "done"

\* the traffic workload with a run() that is not suspended forever: every
\* RunStep and RunReturn step is a RunLoop step, and no other step is
SpecTrafficFair == SpecTraffic /\ WF_position(RunLoop)

\* ------------------------------------------------------------------------
\* Properties
\* ------------------------------------------------------------------------
\* the ids of the events the caller scheduled before run(), in the order of
\* the schedule_event calls
CallerIds == 0 .. (hist.caller_events - 1)

\* how often the event with this id has had its callback invoked
Invocations(id) ==
    Cardinality({ i \in 1..Len(hist.dispatched) : hist.dispatched[i].id = id })

\* the kinds of the events logged for packet p, in order
LogKinds(p) ==
    [ i \in 1..Len(packet_logs[p].events) |-> packet_logs[p].events[i].event ]

\* C1: run() invokes the events scheduled before it in non-decreasing
\* scheduled_time order, events of equal time in the order of their
\* schedule_event calls, and, when nothing else took events off the queue,
\* it has invoked each of them exactly once when it returns.
C1_RunOrder ==
    LET d == hist.dispatched
    IN  /\ \A i, j \in 1..Len(d) :
              (i < j /\ d[i].id \in CallerIds /\ d[j].id \in CallerIds)
              => \/ d[i].time < d[j].time
                 \/ d[i].time = d[j].time /\ d[i].id < d[j].id
        /\ (pc = "done" /\ hist.dropped = {})
              => \A id \in CallerIds : Invocations(id) = 1

\* C1 witness: run() has returned after invoking three events of the caller,
\* one ahead of an event submitted before it, two of equal time in
\* submission order.
C1_Witness ==
    LET d == hist.dispatched
    IN  /\ pc = "done"
        /\ hist.dropped = {}
        /\ \E i, j \in 1..Len(d) :
              /\ i < j /\ d[i].id \in CallerIds /\ d[j].id \in CallerIds
              /\ d[i].time < d[j].time /\ d[i].id > d[j].id
        /\ \E i, j \in 1..Len(d) :
              /\ i < j /\ d[i].id \in CallerIds /\ d[j].id \in CallerIds
              /\ d[i].time = d[j].time /\ d[i].id < d[j].id

\* C2: when run_until(end_time) has ended, every event scheduled so far
\* with scheduled_time <= end_time has been invoked exactly once and no
\* event with a later scheduled_time has been invoked.
C2_RunUntilExact ==
    (pc = "idle" /\ hist.until_ended = 1)
    => \A s \in hist.scheduled :
          /\ s.time <= end_time => Invocations(s.id) = 1
          /\ s.time > end_time => Invocations(s.id) = 0

\* C3: run_until(end_time) followed by run() does what a single run() does:
\* no call raises, and every event the caller scheduled has been invoked
\* exactly once, in (scheduled_time, submission) order, when run() returns.
C3_Resumable ==
    (pc = "done" /\ hist.until_calls > 0)
    => /\ error = "none"
       /\ \A id \in CallerIds : Invocations(id) = 1
       /\ \A i, j \in 1..Len(hist.dispatched) :
              (i < j /\ hist.dispatched[i].id \in CallerIds
                     /\ hist.dispatched[j].id \in CallerIds)
              => EventLess(hist.dispatched[i], hist.dispatched[j])

\* the packets constructed so far
PacketIds == 1..Len(packets)

\* packet p has been handed to the link / popped by transfer_packet
Enqueued(p) == hist.pkt[p].enq_order # 0
Started(p) == hist.pkt[p].start_order # 0

\* C4: the clock never decreases from one dispatched event to the next.
C4_ClockMonotonic ==
    \A i \in 1..(Len(hist.dispatched) - 1) :
        hist.dispatched[i].time <= hist.dispatched[i + 1].time

\* C5: of two packets enqueued in the same direction, the one enqueued
\* first is popped by transfer_packet before the one enqueued second.
C5_DirectionFifo ==
    \A p, q \in PacketIds :
        ( /\ Enqueued(p) /\ Enqueued(q)
          /\ hist.pkt[p].dir = hist.pkt[q].dir
          /\ hist.pkt[p].enq_order < hist.pkt[q].enq_order
          /\ Started(q) )
        => /\ Started(p)
           /\ hist.pkt[p].start_order < hist.pkt[q].start_order

\* C6: enque_packet called with a from_node that is not an endpoint of the
\* link raises InvalidEndpoint, changes no queue and no backlog, and
\* schedules no event.
C6_InvalidEndpoint ==
    \A c \in hist.foreign :
        /\ c.raised
        /\ ~ c.queue_changed
        /\ ~ c.backlog_changed
        /\ ~ c.scheduled

\* C7: a packet begins service exactly at the dequeue_time computed when it
\* was enqueued, the clock then plus the backlog of its direction then, so
\* that it is delivered at that time plus the propagation delay.
C7_ServiceAtDequeueTime ==
    \A p \in PacketIds :
        Started(p)
        => /\ hist.pkt[p].dequeue_time
                = hist.pkt[p].enq_clock + hist.pkt[p].enq_backlog
           /\ hist.pkt[p].start_clock = hist.pkt[p].dequeue_time
           /\ \A s \in hist.scheduled :
                 (s.callback = "receive_packet" /\ s.at = hist.pkt[p].start_clock
                    /\ s.id \in hist.pkt[p].delivery)
                 => s.time = hist.pkt[p].dequeue_time + link.delay

\* packet p was created by one endpoint of the link for the other one
AcrossLink(p) ==
    \E n, m \in Endpoints :
        /\ n # m
        /\ packets[p].source = address(n)
        /\ packets[p].destination = address(m)

\* C8: on a link with loss_rate 0 a packet one endpoint creates for the
\* other is never marked lost, has arrived when run() returns, and its
\* arrival_time is the clock at the start of its transfer plus the link's
\* propagation delay.
C8_NoLossArrival ==
    \A p \in PacketIds :
        AcrossLink(p)
        => /\ packets[p].arrival_time # LOST
           /\ packets[p].arrival_time # None
                 => /\ Started(p)
                    /\ packets[p].arrival_time
                          = hist.pkt[p].start_clock + link.delay
                    /\ LogKinds(p) = << "created", "sent", "arrived" >>
           /\ pc = "done" => packets[p].arrival_time # None

\* C8 witness: run() has returned and a packet that waited in the queue of
\* its direction has arrived, one delay after its transfer began.
C8_Witness ==
    /\ pc = "done"
    /\ link.loss_rate = 0
    /\ \E p \in PacketIds :
          /\ AcrossLink(p)
          /\ hist.pkt[p].start_clock > hist.pkt[p].enq_clock
          /\ packets[p].arrival_time = hist.pkt[p].start_clock + link.delay
          /\ LogKinds(p) = << "created", "sent", "arrived" >>

\* C9: on a link with loss_rate 1.0 every packet handed to the link is
\* marked lost when its transfer begins and stays so, its log is created,
\* sent, and then lost once it is delivered, never arrived, and no call
\* raises: when run() returns every such packet has been logged lost.
C9_AllLost ==
    /\ error = "none"
    /\ \A p \in PacketIds :
          Enqueued(p)
          => /\ packets[p].arrival_time
                   = (IF Started(p) THEN LOST ELSE None)
             /\ LogKinds(p) \in { << "created", "sent" >>,
                                  << "created", "sent", "lost" >> }
             /\ pc = "done" => LogKinds(p) = << "created", "sent", "lost" >>

\* C9 witness: run() has returned with two packets lost on the link, one
\* in each direction.
C9_Witness ==
    /\ pc = "done"
    /\ link.loss_rate = 100
    /\ \E p, q \in PacketIds :
          /\ hist.pkt[p].dir = "xy" /\ hist.pkt[q].dir = "yx"
          /\ packets[p].arrival_time = LOST /\ packets[q].arrival_time = LOST
          /\ LogKinds(p) = << "created", "sent", "lost" >>
          /\ LogKinds(q) = << "created", "sent", "lost" >>

\* C10: a packet's arrival_time is set at most once: it is unset until its
\* one set_arrived call and keeps the value of that call afterwards.
C10_ArrivalSetOnce ==
    \A p \in PacketIds :
        /\ hist.pkt[p].sets <= 1
        /\ hist.pkt[p].sets = 0 <=> packets[p].arrival_time = None

\* C10 witness: run() has returned, one packet was marked lost and has been
\* delivered to the receiving node, another has a real arrival time.
C10_Witness ==
    /\ pc = "done"
    /\ \E p, q \in PacketIds :
          /\ packets[p].arrival_time = LOST
          /\ LogKinds(p) = << "created", "sent", "lost" >>
          /\ packets[p].destination = address(node_y)
          /\ packets[q].arrival_time >= 0
          /\ Started(q)

\* C11: a step of the link for one direction (an enqueue, a transfer or a
\* finish whose from_node is node_x, or is not node_x) leaves the queue and
\* the backlog of the other direction as they were.
C11_DirectionsIndependent ==
    [][ (pc = "run" /\ events # {})
        => LET e == HeapMin(events)
               other == IF e.node = node_x THEN "yx" ELSE "xy"
           IN  /\ packet_queue'[other] = packet_queue[other]
               /\ current_queue_time'[other] = current_queue_time[other] ]_vars

\* C11 witness: a packet of each direction has been enqueued while the
\* other direction had a backlog, and one of them began its transfer.
C11_Witness ==
    \E p, q \in PacketIds :
        /\ Enqueued(p) /\ hist.pkt[p].dir = "xy"
        /\ Enqueued(q) /\ hist.pkt[q].dir = "yx"
        /\ p < q
        /\ hist.pkt[q].enq_backlog = 0
        /\ hist.pkt[q].dequeue_time = hist.pkt[q].enq_clock
        /\ Started(p) /\ Started(q)
        /\ current_queue_time["xy"] > 0
        /\ current_queue_time["yx"] > 0

\* the record of the schedule_event call that made the event with this id
Scheduled(id) == CHOOSE s \in hist.scheduled : s.id = id

\* C12: an event scheduled while run() executes (or before it) is dispatched
\* by that run() after every event that was pending with a smaller
\* (time, sequence) key and before every pending event with a larger one;
\* no event is invoked twice; run() returns only with an empty queue, when
\* every event ever scheduled has been invoked exactly once.
C12_ScheduledDuringRun ==
    LET d == hist.dispatched
    IN  /\ \A i, j \in 1..Len(d) :
              (i < j /\ Scheduled(d[j].id).by < i)
              => \/ d[i].time < d[j].time
                 \/ d[i].time = d[j].time /\ d[i].id < d[j].id
        /\ \A s \in hist.scheduled : Invocations(s.id) <= 1
        /\ pc = "done"
              => /\ events = {}
                 /\ \A s \in hist.scheduled : Invocations(s.id) = 1

\* C12 witness: run() has returned; an event scheduled by an action during
\* the run was dispatched ahead of an event the caller had scheduled before
\* the run, and another one after an event of equal time by its sequence.
C12_Witness ==
    LET d == hist.dispatched
    IN  /\ pc = "done"
        /\ \E i, j \in 1..Len(d) :
              /\ i < j
              /\ Scheduled(d[i].id).by > 0
              /\ Scheduled(d[j].id).by = 0
        /\ \E i, j \in 1..Len(d) :
              /\ i < j
              /\ Scheduled(d[j].id).by > 0
              /\ Scheduled(d[j].id).by < i
              /\ d[i].time = d[j].time

\* the creation times of the packets the k-th set_traffic call has made
CreationTimes(k) ==
    [ i \in 1..Len(hist.traffic[k].created) |->
        packets[hist.traffic[k].created[i]].creation_time ]

C14_BackToBack ==
    \A p, q \in PacketIds :
        ( /\ Enqueued(p) /\ Enqueued(q)
          /\ hist.pkt[p].dir = hist.pkt[q].dir
          /\ hist.pkt[p].enq_clock = hist.pkt[q].enq_clock
          /\ hist.pkt[q].enq_step = hist.pkt[p].enq_step + 1 )
        => hist.pkt[q].dequeue_time =
               hist.pkt[p].dequeue_time
                   + (packets[p].size * 8) \div link.bandwidth

\* C14 witness: two packets enqueued back-to-back at the same clock while
\* the direction had a backlog left by an earlier packet.
C14_Witness ==
    \E p, q \in PacketIds :
        /\ Enqueued(p) /\ Enqueued(q)
        /\ hist.pkt[p].dir = hist.pkt[q].dir
        /\ hist.pkt[p].enq_clock = hist.pkt[q].enq_clock
        /\ hist.pkt[q].enq_step = hist.pkt[p].enq_step + 1
        /\ hist.pkt[p].enq_backlog > 0
        /\ hist.pkt[p].enq_clock > 0
        /\ packets[p].size > 1

\* C15: a packet of S bits enqueued at clock t on a direction with zero
\* backlog gets dequeue_time t, its transfer begins at t and its finish
\* event is scheduled for, and dispatched at, t + S/bandwidth; when it is
\* the only packet of the direction, the backlog is S/bandwidth from the
\* enqueue until that finish event and back at zero from then on, and the
\* clock does not pass t + S/bandwidth before the finish event.
C15_ZeroBacklog ==
    \A p \in PacketIds :
        (Enqueued(p) /\ hist.pkt[p].enq_backlog = 0)
        => LET h == hist.pkt[p]
               t == h.enq_clock
               tt == (packets[p].size * 8) \div link.bandwidth
               finished == h.finish # None /\ Invocations(h.finish) = 1
           IN  /\ h.dequeue_time = t
               /\ Started(p)
                    => /\ h.start_clock = t
                       /\ Scheduled(h.finish).callback =
                              "subtract_from_queue_time"
                       /\ Scheduled(h.finish).time = t + tt
               /\ hist.enq_count[h.dir] = 1
                    => /\ current_queue_time[h.dir] =
                              IF finished THEN 0 ELSE tt
                       /\ current_time > t + tt => finished
                       /\ finished => current_time >= t + tt

\* C15 witness: the only packet of its direction, of 32 bits, was enqueued
\* at a clock after 0, its finish event has been dispatched and the backlog
\* is back at zero.
C15_Witness ==
    \E p \in PacketIds :
        /\ Enqueued(p) /\ hist.pkt[p].enq_backlog = 0
        /\ hist.enq_count[hist.pkt[p].dir] = 1
        /\ hist.pkt[p].enq_clock > 0
        /\ packets[p].size > 1
        /\ hist.pkt[p].finish # None
        /\ Invocations(hist.pkt[p].finish) = 1
        /\ current_time = hist.pkt[p].enq_clock
                             + (packets[p].size * 8) \div link.bandwidth
        /\ current_queue_time[hist.pkt[p].dir] = 0

\* the arrival_time of packet p is a real time
Arrived(p) == packets[p].arrival_time \notin {None, LOST}

\* C16: a packet's arrival_time, when it is a real time, is greater than or
\* equal to the packet's creation_time.
C16_ArrivalAfterCreation ==
    \A p \in PacketIds :
        Arrived(p) => packets[p].arrival_time >= packets[p].creation_time

\* C16 witness: a packet that the link served ahead of a packet enqueued
\* before it has arrived, and so has the packet it overtook.
C16_Witness ==
    /\ pc = "done"
    /\ \E p, q \in PacketIds :
          /\ Enqueued(p) /\ Enqueued(q)
          /\ hist.pkt[p].dir = hist.pkt[q].dir
          /\ hist.pkt[p].enq_order < hist.pkt[q].enq_order
          /\ Started(p) /\ Started(q)
          /\ hist.pkt[q].start_order < hist.pkt[p].start_order
          /\ Arrived(p) /\ Arrived(q)
          /\ packets[q].creation_time > 0

\* C17: during a run_until(end_time) call and after it, until the next call
\* of the caller, every event that was in the queue when the call began
\* with scheduled_time > end_time is in the queue with the time and the
\* sequence number it was given, no event has been scheduled by the call
\* (so none of a later time can be missing), and the clock is not greater
\* than end_time.
C17_FutureUntouched ==
    pc \in {"run_until", "idle"}
    => /\ \A e \in hist.until_snapshot :
              e.time > end_time => e \in events
       /\ events \subseteq hist.until_snapshot
       /\ current_time <= end_time

\* C17 witness: a run_until call has ended; the queue held an event due by
\* end_time, which the call took, and an event after end_time, which is in
\* the queue as before.
C17_Witness ==
    /\ pc = "idle"
    /\ hist.until_ended > 0
    /\ \E e \in hist.until_snapshot : e.time <= end_time /\ e \notin events
    /\ \E e \in hist.until_snapshot : e.time > end_time /\ e \in events

\* C18: of two packets of one direction with equal dequeue_time, the one
\* enqueued first is popped by transfer_packet first.
C18_TieFifo ==
    \A p, q \in PacketIds :
        ( /\ Enqueued(p) /\ Enqueued(q)
          /\ hist.pkt[p].dir = hist.pkt[q].dir
          /\ hist.pkt[p].dequeue_time = hist.pkt[q].dequeue_time
          /\ hist.pkt[p].enq_order < hist.pkt[q].enq_order
          /\ Started(q) )
        => /\ Started(p)
           /\ hist.pkt[p].start_order < hist.pkt[q].start_order

\* C19: every firing of a traffic source's generator schedules the next
\* firing at a time strictly after its own, and a run() over traffic
\* sources of positive bitrate, packet size and burstiness and finite
\* duration returns, with an empty event queue.
C19_GeneratorTerminates ==
    /\ [](\A s \in hist.scheduled :
              (s.callback = "generate_packet" /\ s.by > 0) => s.time > s.at)
    /\ (pc = "run") ~> (pc = "done" /\ events = {})

\* C19 witness: run() has returned with an empty queue after a source's
\* generator fired three times with a packet and a last time without.
C19_Witness ==
    /\ pc = "done"
    /\ events = {}
    /\ \E k \in 1..Len(hist.traffic) :
          /\ Len(hist.traffic[k].created) = 3
          /\ Cardinality({ i \in 1..Len(hist.dispatched) :
                 hist.dispatched[i].callback = "generate_packet" }) = 4

\* C20: once the destination node has logged a packet's arrival, the
\* packet's entry in packet_logs has an arrival_time, the clock of that
\* arrival, equal to the packet's own arrival_time.
C20_LogArrivalTime ==
    \A p \in PacketIds :
        ( /\ p \in DOMAIN packet_logs
          /\ \E i \in 1..Len(packet_logs[p].events) :
                 packet_logs[p].events[i].event = "arrived" )
        => /\ packet_logs[p].arrival_time # None
           /\ packet_logs[p].arrival_time = packets[p].arrival_time

\* the transfer_packet events of direction d that are in the scheduler
PendingTransfers(d) ==
    { e \in events :
        /\ e.callback = "transfer_packet"
        /\ d = IF e.node = node_x THEN "xy" ELSE "yx" }

\* the transfer_packet events dispatched so far
TransfersFired ==
    Cardinality({ i \in 1..Len(hist.dispatched) :
                    hist.dispatched[i].callback = "transfer_packet" })

\* C21: between dispatches each direction has exactly one transfer_packet
\* event in the scheduler when its queue is not empty and none when it is
\* empty; every transfer_packet that fired popped a packet; and when run()
\* has returned every enqueued packet has been popped and handed to the
\* next node, which logged it as arrived, received or lost.
C21_OnePendingTransfer ==
    /\ \A d \in Dirs :
          Cardinality(PendingTransfers(d)) =
              IF packet_queue[d] # << >> THEN 1 ELSE 0
    /\ TransfersFired = hist.start_count["xy"] + hist.start_count["yx"]
    /\ pc = "done"
          => \A p \in PacketIds :
                Enqueued(p)
                => /\ Started(p)
                   /\ \A id \in hist.pkt[p].delivery : Invocations(id) = 1
                   /\ LogKinds(p)[Len(LogKinds(p))]
                          \in {"arrived", "received", "lost"}

\* C21 witness: run() has returned after a direction held two packets at
\* once, the second enqueued while the first one's transfer was pending,
\* and both were popped and delivered or lost.
C21_Witness ==
    /\ pc = "done"
    /\ \E p, q \in PacketIds :
          /\ Enqueued(p) /\ Enqueued(q)
          /\ hist.pkt[p].dir = hist.pkt[q].dir
          /\ hist.pkt[q].enq_order = hist.pkt[p].enq_order + 1
          /\ hist.pkt[q].enq_backlog > 0
          /\ Started(p) /\ Started(q)
          /\ hist.pkt[p].start_clock < hist.pkt[q].start_clock

\* the packets enqueued in direction d whose finish event has not been
\* dispatched: waiting in the queue, or in transfer
Unfinished(d) ==
    { p \in PacketIds :
        /\ Enqueued(p) /\ hist.pkt[p].dir = d
        /\ \/ hist.pkt[p].finish = None
           \/ Invocations(hist.pkt[p].finish) = 0 }

\* the sum of the transfer times (size in bits / bandwidth) of a set of
\* packets
RECURSIVE SumTransferTimes(_)
SumTransferTimes(ps) ==
    IF ps = {} THEN 0
    ELSE LET p == CHOOSE q \in ps : TRUE
         IN  (packets[p].size * 8) \div link.bandwidth
                 + SumTransferTimes(ps \ {p})

\* C22: each direction's backlog is non-negative and is the sum of the
\* transfer times of the packets enqueued in that direction whose finish
\* event has not been dispatched; when run() has returned both are 0.
C22_BacklogIsSum ==
    /\ \A d \in Dirs :
          /\ current_queue_time[d] >= 0
          /\ current_queue_time[d] = SumTransferTimes(Unfinished(d))
    /\ pc = "done" => \A d \in Dirs : current_queue_time[d] = 0

\* C22 witness: a direction's backlog is made of a packet in transfer and
\* two packets waiting behind it, of different sizes.
C22_Witness ==
    \E d \in Dirs :
        /\ Cardinality(Unfinished(d)) = 3
        /\ \E p \in Unfinished(d) : Started(p)
        /\ \E p, q \in Unfinished(d) :
              /\ ~Started(p) /\ ~Started(q)
              /\ packets[p].size # packets[q].size
        /\ current_queue_time[d] > 0

\* C23: every event the link schedules (a transfer, a delivery, a finish)
\* has a scheduled time greater than or equal to the clock at the moment
\* it is scheduled.
C23_NeverInThePast ==
    \A s \in hist.scheduled :
        s.callback \in {"transfer_packet", "receive_packet",
                        "subtract_from_queue_time"}
        => s.time >= s.at

\* C24: the events logged for a packet are created, then sent, then at most
\* one of arrived, lost and received; when run() has returned exactly one
\* of these three is logged; and a packet addressed to its sender is logged
\* sent and arrived at the clock of its creation, without entering a link
\* queue.
C24_LogSequence ==
    \A p \in PacketIds :
        LET k == LogKinds(p)
        IN  /\ Len(k) \in {2, 3}
            /\ k[1] = "created" /\ k[2] = "sent"
            /\ Len(k) = 3 => k[3] \in {"arrived", "lost", "received"}
            /\ pc = "done" => Len(k) = 3
            /\ packets[p].destination = packets[p].source
                  => /\ k = << "created", "sent", "arrived" >>
                     /\ ~Enqueued(p)
                     /\ \A i \in 1..3 :
                            packet_logs[p].events[i].time =
                                packets[p].creation_time

====
